---- MODULE Spec2Model ----
(***************************************************************************)
(* Revision lifecycle and environment toggle of one feature flag, as the   *)
(* handlers of FeatureFlagHandler (src/unnamed/part_000) implement them.   *)
(*                                                                         *)
(* The stored flag document, its timeline (audit log) and the response of  *)
(* the last request are the state.  Every handler is one action: it runs   *)
(* from the context checks to the response, one request at a time.  The    *)
(* outcome of the calls a handler makes to its collaborators (context,     *)
(* organization lookup, permission, id parsing, flag store, timeline       *)
(* store) is an input of the action.  That is specification Spec.          *)
(*                                                                         *)
(* Specification SpecConc serves two requests at once: every store call    *)
(* of a handler is a step, and the steps of the two requests interleave.   *)
(*                                                                         *)
(* Not modelled: the payload a revision carries verbatim (default value,   *)
(* rules, creator, timestamps) and the user id of a timeline entry; no     *)
(* handler branches on them.                                               *)
(***************************************************************************)
EXTENDS Integers, Sequences, FiniteSets, TLC

\* ---------------------------------------------------------------- bounds
\* Revisions one flag receives (PatchFeatureFlag stops appending there).
MaxRevisions == 3
\* Entries the timeline of the flag holds (no request is taken once full).
MaxTimeline == 4
\* How far version may move away from its initial value in either direction.
MaxVersionDrift == 3
\* Requests on the flag the workers take, in all, when requests are served
\* at once.
MaxServed == 5

\* ------------------------------------------------------------- constants
NilObjectID == 0

Draft == "draft"
Live == "live"
Archived == "archived"

StatusOK == 200
StatusCreated == 201
StatusNoContent == 204
StatusBadRequest == 400
StatusUnauthorized == 401
StatusForbidden == 403
StatusInternalServerError == 500

NoError == "none"
BadRequestError == "bad_request"
InternalServerError == "internal_server_error"
ForbiddenError == "forbidden"
UnauthorizedError == "unauthorized"

Created == "created"
RevisionCreated == "revision_created"
RevisionApproved == "revision_approved"
FeatureFlagRollback == "rollback"
FeatureFlagDeleted == "deleted"
FeatureFlagToggle(environmentName) == <<"toggle", environmentName>>

\* Revision ids a request may name: the nil id, and every id a revision of
\* the flag may get (an id not yet given out names no revision).
RevisionIDs == 0..MaxRevisions
\* Environment names a toggle request may carry ("dev" is never created).
EnvironmentNames == {"prod", "staging", "dev"}
\* Environment lists a flag is created with.
InitialEnvironments ==
    { <<[Name |-> "prod", IsEnabled |-> FALSE],
        [Name |-> "staging", IsEnabled |-> TRUE]>> }

\* The requests on the flag the server handles at the same time.
Workers == {"w1", "w2"}

\* What the collaborators of a handler answer, in the order they are asked:
\*   BadRequest         the user or organization is not in the context, an id
\*                      of the path is no object id, or the body does not bind
\*   LookupError        the organization or the flag cannot be read
\*   NoPermission       the user is no Collaborator of the organization
\*   SaveError          the write of the flag document fails
\*   TimelineInsertError, AuditError   the write of the timeline fails
Outcomes ==
    { "BadRequest", "LookupError", "NoPermission", "SaveError",
      "TimelineInsertError", "AuditError", "OK" }

VARIABLES
    flag,       \* the stored flag document
    timeline,   \* entries of the flag's timeline record, oldest first
    nextID,     \* the next fresh revision id
    timelineUp, \* whether the timeline store takes writes in this behaviour
    before,     \* the stored flag document when the last request arrived
    last,       \* the last request and its response
    requests    \* the requests being served at once, one per worker

vars == <<flag, timeline, nextID, timelineUp, before, last, requests>>

\* ------------------------------------------------------------ data model
NoFlag ==
    [exists |-> FALSE, deleted |-> FALSE, Version |-> 0,
     Revisions |-> <<>>, Environments |-> <<>>]

NewFeatureFlagRecord(environments) ==
    [exists |-> TRUE, deleted |-> FALSE, Version |-> 1,
     Revisions |-> <<>>, Environments |-> environments]

NewRevisionRecord(id) ==
    [ID |-> id, Status |-> Draft, LastRevisionID |-> NilObjectID]

NoRequest ==
    [op |-> "none", stage |-> "none", code |-> 0, err |-> NoError,
     revisionID |-> NilObjectID, env |-> ""]

\* A worker that serves no request, and has served none.  `order` is history:
\* the place of the request's update of the flag among the updates stored
\* whose timeline entry is still to be written (0 before the update).
Idle ==
    [pc |-> "idle", op |-> "none", revisionID |-> NilObjectID,
     featureFlagRecord |-> NoFlag, served |-> 0, order |-> 0]

\* The worker after the response of the request it served.
Rest(request) == [Idle EXCEPT !.served = request.served]

Response(op, stage, code, err, revisionID, env) ==
    [op |-> op, stage |-> stage, code |-> code, err |-> err,
     revisionID |-> revisionID, env |-> env]

\* ------------------------------------------------- flag store (repository)
\* A soft-deleted flag is excluded by the store: its reads and updates fail.
Excluded(record) == record.exists /\ record.deleted

\* Whether the collaborators can answer `outcome` on the stored flag: the
\* first store call of a request on an excluded flag fails.
Answerable(outcome, storeFailure) ==
    Excluded(flag) =>
        outcome \in {"BadRequest", "LookupError", "NoPermission", storeFailure}

FindByID(record) == record

\* The timeline store either takes every write of a behaviour or none.
TimelineAnswers(outcome) ==
    IF timelineUp
    THEN outcome \notin {"TimelineInsertError", "AuditError"}
    ELSE outcome # "OK"

\* ------------------------------------------------------- ApproveRevision
\* Mutant: the Live revision is not archived.
ArchiveLiveSkipped(revisions, index, revision) == revisions

ArchiveLive(revisions, index, revision) ==
    IF revision.Status = Live
    THEN [revisions EXCEPT ![index].Status = Archived]
    ELSE revisions

LastLiveID(revision, lastRevisionID) ==
    IF revision.Status = Live THEN revision.ID ELSE lastRevisionID

\* Mutant: the named revision is promoted whatever its status.
PromoteWhateverStatus(revisions, index, revision, revisionID, lastRevisionID) ==
    IF revision.ID = revisionID
    THEN [revisions EXCEPT ![index].Status = Live,
                           ![index].LastRevisionID = lastRevisionID]
    ELSE revisions

\* Mutant: the promoted revision is given its own id as LastRevisionID.
PromoteLinksItself(revisions, index, revision, revisionID, lastRevisionID) ==
    IF revision.ID = revisionID /\ revision.Status = Draft
    THEN [revisions EXCEPT ![index].Status = Live,
                           ![index].LastRevisionID = revision.ID]
    ELSE revisions

PromoteDraft(revisions, index, revision, revisionID, lastRevisionID) ==
    IF revision.ID = revisionID /\ revision.Status = Draft
    THEN [revisions EXCEPT ![index].Status = Live,
                           ![index].LastRevisionID = lastRevisionID]
    ELSE revisions

RECURSIVE ApproveLoop(_, _, _, _)
ApproveLoop(revisions, revisionID, index, lastRevisionID) ==
    IF index > Len(revisions) THEN revisions
    ELSE LET revision == revisions[index]
             lastID == LastLiveID(revision, lastRevisionID)
             archived == ArchiveLive(revisions, index, revision)
             promoted == PromoteDraft(archived, index, revision, revisionID, lastID)
         IN  ApproveLoop(promoted, revisionID, index + 1, lastID)

\* Mutant: the version is not incremented.
ApprovedVersionKept(version) == version

ApprovedVersion(version) == version + 1

Approve(record, revisionID) ==
    [record EXCEPT
        !.Revisions = ApproveLoop(record.Revisions, revisionID, 1, NilObjectID),
        !.Version = ApprovedVersion(record.Version)]

\* -------------------------------------------- RollbackFeatureFlagVersion
\* Mutant: the demoted revision keeps its LastRevisionID.
DemoteLiveKeepsBacklink(revisions, index, revision) ==
    IF revision.Status = Live
    THEN [revisions EXCEPT ![index].Status = Draft]
    ELSE revisions

DemoteLive(revisions, index, revision) ==
    IF revision.Status = Live
    THEN [revisions EXCEPT ![index].Status = Draft,
                           ![index].LastRevisionID = NilObjectID]
    ELSE revisions

NewRevisionID(revision, newRevisionID) ==
    IF revision.Status = Live THEN revision.LastRevisionID ELSE newRevisionID

\* First loop: the pair <<revisions, newRevisionID>> it leaves.
RECURSIVE DemoteLoop(_, _, _)
DemoteLoop(revisions, index, newRevisionID) ==
    IF index > Len(revisions) THEN <<revisions, newRevisionID>>
    ELSE LET revision == revisions[index]
         IN  DemoteLoop(DemoteLive(revisions, index, revision), index + 1,
                        NewRevisionID(revision, newRevisionID))

\* Mutant: the second loop restores nothing.
RestoreArchivedSkipped(revisions, index, revision, newRevisionID) == revisions

\* Mutant: every Archived revision is restored, whatever its id.
RestoreAnyArchived(revisions, index, revision, newRevisionID) ==
    IF revision.Status = Archived
    THEN [revisions EXCEPT ![index].Status = Live]
    ELSE revisions

RestoreArchived(revisions, index, revision, newRevisionID) ==
    IF revision.ID = newRevisionID /\ revision.Status = Archived
    THEN [revisions EXCEPT ![index].Status = Live]
    ELSE revisions

RECURSIVE RestoreLoop(_, _, _)
RestoreLoop(revisions, index, newRevisionID) ==
    IF index > Len(revisions) THEN revisions
    ELSE RestoreLoop(RestoreArchived(revisions, index, revisions[index], newRevisionID),
                     index + 1, newRevisionID)

\* Mutant: the version is not decremented.
RolledBackVersionKept(version) == version

\* Mutant: the version is not taken below its initial value.
RolledBackVersionClamped(version) == IF version > 1 THEN version - 1 ELSE version

RolledBackVersion(version) == version - 1

Rollback(record) ==
    LET demoted == DemoteLoop(record.Revisions, 1, NilObjectID)
    IN  [record EXCEPT
            !.Revisions = RestoreLoop(demoted[1], 1, demoted[2]),
            !.Version = RolledBackVersion(record.Version)]

\* ----------------------------------------------------- ToggleFeatureFlag
\* Mutant: every environment is flipped, whatever its name.
ToggleEveryEnvironment(environment, environmentName) ==
    [environment EXCEPT !.IsEnabled = ~environment.IsEnabled]

\* Mutant: the named environment is switched on instead of inverted.
ToggleEnablesEnvironment(environment, environmentName) ==
    IF environment.Name = environmentName
    THEN [environment EXCEPT !.IsEnabled = TRUE]
    ELSE environment

\* Mutant: the comparison of the names is inverted.
ToggleOtherEnvironments(environment, environmentName) ==
    IF environment.Name # environmentName
    THEN [environment EXCEPT !.IsEnabled = ~environment.IsEnabled]
    ELSE environment

ToggleEnvironment(environment, environmentName) ==
    IF environment.Name = environmentName
    THEN [environment EXCEPT !.IsEnabled = ~environment.IsEnabled]
    ELSE environment

RECURSIVE ToggleLoop(_, _, _)
ToggleLoop(environments, index, environmentName) ==
    IF index > Len(environments) THEN environments
    ELSE ToggleLoop(
            [environments EXCEPT
                ![index] = ToggleEnvironment(environments[index], environmentName)],
            index + 1, environmentName)

Toggle(record, environmentName) ==
    [record EXCEPT !.Environments = ToggleLoop(record.Environments, 1, environmentName)]

\* ---------------------------------------------------------- the timeline
\* timelineModel.UpdateOne: the entry is pushed at the end of the entries of
\* the flag's timeline; no entry already there is touched.
UpdateOne(entries, entry) == Append(entries, entry)

\* ------------------------------------------------------------- responses
\* The checks every handler makes before it touches the flag, and the error
\* response each gives.  noPermission is the status the handler answers a
\* caller without Collaborator permission with.
Refused == {"BadRequest", "LookupError", "NoPermission"}

RefusedCode(outcome, noPermission) ==
    CASE outcome = "BadRequest" -> StatusBadRequest
      [] outcome = "LookupError" -> StatusInternalServerError
      [] outcome = "NoPermission" -> noPermission

ErrorOf(code) ==
    CASE code = StatusBadRequest -> BadRequestError
      [] code = StatusUnauthorized -> UnauthorizedError
      [] code = StatusForbidden -> ForbiddenError
      [] code = StatusInternalServerError -> InternalServerError
      [] OTHER -> NoError

\* The request ends before the flag is touched.
Refuse(op, outcome, noPermission) ==
    /\ last' = Response(op, "refused", RefusedCode(outcome, noPermission),
                        ErrorOf(RefusedCode(outcome, noPermission)),
                        NilObjectID, "")
    /\ UNCHANGED <<flag, timeline, nextID, timelineUp, requests>>

\* Mutant: the error of the flag store is only logged and the handler goes
\* on to write the timeline entry before it answers.
SaveFailsRecorded(op) ==
    /\ last' = Response(op, "unsaved", StatusInternalServerError,
                        InternalServerError, NilObjectID, "")
    /\ timeline' = IF timelineUp THEN Append(timeline, op) ELSE timeline
    /\ UNCHANGED <<flag, nextID, timelineUp, requests>>

\* The update of the flag document fails: nothing is stored.
SaveFails(op) ==
    /\ last' = Response(op, "unsaved", StatusInternalServerError,
                        InternalServerError, NilObjectID, "")
    /\ UNCHANGED <<flag, timeline, nextID, timelineUp, requests>>

\* Mutant: the flag document is stored and the timeline is never written.
SaveWithoutRecord(op, record, entry, outcome, okCode, auditCode, revisionID, env) ==
    /\ flag' = record
    /\ UNCHANGED <<timelineUp, timeline, requests>>
    /\ last' = IF outcome = "OK"
               THEN Response(op, "done", okCode, NoError, revisionID, env)
               ELSE Response(op, "unaudited", auditCode, ErrorOf(auditCode),
                             revisionID, env)

\* Mutant: the error of the timeline store is dropped and the handler answers
\* as if the entry had been written.
SaveAndIgnoreAuditError(op, record, entry, outcome, okCode, auditCode, revisionID, env) ==
    /\ flag' = record
    /\ UNCHANGED <<timelineUp, requests>>
    /\ IF outcome = "OK"
       THEN /\ timeline' = Append(timeline, entry)
            /\ last' = Response(op, "done", okCode, NoError, revisionID, env)
       ELSE /\ timeline' = timeline
            /\ last' = Response(op, "unaudited", okCode, NoError, revisionID, env)

\* The flag document is stored; the timeline entry is appended unless the
\* timeline store fails, and then the handler answers `auditCode`.
SaveAndRecord(op, record, entry, outcome, okCode, auditCode, revisionID, env) ==
    /\ flag' = record
    /\ UNCHANGED <<timelineUp, requests>>
    /\ IF outcome = "OK"
       THEN /\ timeline' = UpdateOne(timeline, entry)
            /\ last' = Response(op, "done", okCode, NoError, revisionID, env)
       ELSE /\ timeline' = timeline
            /\ last' = Response(op, "unaudited", auditCode, ErrorOf(auditCode),
                                revisionID, env)

\* -------------------------------------------------------------- handlers
Init ==
    /\ flag = NoFlag
    /\ timeline = <<>>
    /\ nextID = 1
    /\ timelineUp \in BOOLEAN
    /\ before = NoFlag
    /\ last = NoRequest
    /\ requests = [w \in Workers |-> Idle]

PostFeatureFlag(environments, outcome) ==
    /\ ~flag.exists
    /\ outcome \in Outcomes
    /\ TimelineAnswers(outcome)
    /\ before' = flag
    /\ IF outcome \in Refused
       THEN Refuse("PostFeatureFlag", outcome, StatusForbidden)
       ELSE IF outcome = "SaveError"
       THEN SaveFails("PostFeatureFlag")
       ELSE /\ SaveAndRecord("PostFeatureFlag", NewFeatureFlagRecord(environments),
                             Created, outcome, StatusCreated,
                             IF outcome = "TimelineInsertError"
                             THEN StatusBadRequest ELSE StatusInternalServerError,
                             NilObjectID, "")
            /\ UNCHANGED nextID

\* Mutant: a new Draft also counts as a new version of the flag.
PatchFeatureFlagBumpsVersion(outcome) ==
    /\ flag.exists
    /\ outcome \in Outcomes \ {"TimelineInsertError"}
    /\ Len(timeline) < MaxTimeline
    /\ Len(flag.Revisions) < MaxRevisions
    /\ Answerable(outcome, "SaveError")
    /\ TimelineAnswers(outcome)
    /\ before' = flag
    /\ IF outcome \in Refused
       THEN Refuse("PatchFeatureFlag", outcome, StatusForbidden)
       ELSE IF outcome = "SaveError"
       THEN SaveFails("PatchFeatureFlag")
       ELSE /\ SaveAndRecord("PatchFeatureFlag",
                             [flag EXCEPT !.Version = flag.Version + 1,
                                 !.Revisions =
                                 Append(flag.Revisions, NewRevisionRecord(nextID))],
                             RevisionCreated, outcome, StatusOK,
                             StatusInternalServerError, nextID, "")
            /\ nextID' = nextID + 1

PatchFeatureFlag(outcome) ==
    /\ flag.exists
    /\ outcome \in Outcomes \ {"TimelineInsertError"}
    /\ Len(timeline) < MaxTimeline
    /\ Len(flag.Revisions) < MaxRevisions
    /\ Answerable(outcome, "SaveError")
    /\ TimelineAnswers(outcome)
    /\ before' = flag
    /\ IF outcome \in Refused
       THEN Refuse("PatchFeatureFlag", outcome, StatusForbidden)
       ELSE IF outcome = "SaveError"
       THEN SaveFails("PatchFeatureFlag")
       ELSE /\ SaveAndRecord("PatchFeatureFlag",
                             [flag EXCEPT !.Revisions =
                                 Append(flag.Revisions, NewRevisionRecord(nextID))],
                             RevisionCreated, outcome, StatusOK,
                             StatusInternalServerError, nextID, "")
            /\ nextID' = nextID + 1

ApproveRevision(revisionID, outcome) ==
    /\ flag.exists
    /\ outcome \in Outcomes \ {"TimelineInsertError"}
    /\ Len(timeline) < MaxTimeline
    /\ flag.Version < 1 + MaxVersionDrift
    /\ Answerable(outcome, "LookupError")
    /\ TimelineAnswers(outcome)
    /\ before' = flag
    /\ IF outcome \in Refused
       THEN Refuse("ApproveRevision", outcome, StatusUnauthorized)
       ELSE LET featureFlagRecord == Approve(FindByID(flag), revisionID)
            IN  IF outcome = "SaveError"
                THEN SaveFails("ApproveRevision")
                ELSE /\ SaveAndRecord("ApproveRevision",
                                      [flag EXCEPT
                                          !.Version = featureFlagRecord.Version,
                                          !.Revisions = featureFlagRecord.Revisions],
                                      RevisionApproved, outcome, StatusOK,
                                      StatusInternalServerError, revisionID, "")
                     /\ UNCHANGED nextID

RollbackFeatureFlagVersion(outcome) ==
    /\ flag.exists
    /\ outcome \in Outcomes \ {"TimelineInsertError"}
    /\ Len(timeline) < MaxTimeline
    /\ flag.Version > 1 - MaxVersionDrift
    /\ Answerable(outcome, "LookupError")
    /\ TimelineAnswers(outcome)
    /\ before' = flag
    /\ IF outcome \in Refused
       THEN Refuse("RollbackFeatureFlagVersion", outcome, StatusForbidden)
       ELSE LET featureFlagRecord == Rollback(FindByID(flag))
            IN  IF outcome = "SaveError"
                THEN SaveFails("RollbackFeatureFlagVersion")
                ELSE /\ SaveAndRecord("RollbackFeatureFlagVersion",
                                      [flag EXCEPT
                                          !.Version = featureFlagRecord.Version,
                                          !.Revisions = featureFlagRecord.Revisions],
                                      FeatureFlagRollback, outcome, StatusOK,
                                      StatusInternalServerError, NilObjectID, "")
                     /\ UNCHANGED nextID

\* Mutant: the deletion also empties the list of revisions.
DeleteFeatureFlagDropsRevisions(outcome) ==
    /\ flag.exists
    /\ outcome \in Outcomes \ {"TimelineInsertError"}
    /\ Len(timeline) < MaxTimeline
    /\ Answerable(outcome, "SaveError")
    /\ TimelineAnswers(outcome)
    /\ before' = flag
    /\ IF outcome \in Refused
       THEN Refuse("DeleteFeatureFlag", outcome, StatusForbidden)
       ELSE IF outcome = "SaveError"
       THEN SaveFails("DeleteFeatureFlag")
       ELSE /\ SaveAndRecord("DeleteFeatureFlag", [flag EXCEPT !.deleted = TRUE, !.Revisions = <<>>],
                             FeatureFlagDeleted, outcome, StatusNoContent,
                             StatusInternalServerError, NilObjectID, "")
            /\ UNCHANGED nextID

DeleteFeatureFlag(outcome) ==
    /\ flag.exists
    /\ outcome \in Outcomes \ {"TimelineInsertError"}
    /\ Len(timeline) < MaxTimeline
    /\ Answerable(outcome, "SaveError")
    /\ TimelineAnswers(outcome)
    /\ before' = flag
    /\ IF outcome \in Refused
       THEN Refuse("DeleteFeatureFlag", outcome, StatusForbidden)
       ELSE IF outcome = "SaveError"
       THEN SaveFails("DeleteFeatureFlag")
       ELSE /\ SaveAndRecord("DeleteFeatureFlag", [flag EXCEPT !.deleted = TRUE],
                             FeatureFlagDeleted, outcome, StatusNoContent,
                             StatusInternalServerError, NilObjectID, "")
            /\ UNCHANGED nextID

ToggleFeatureFlag(environmentName, outcome) ==
    /\ flag.exists
    /\ outcome \in Outcomes \ {"TimelineInsertError"}
    /\ Len(timeline) < MaxTimeline
    /\ Answerable(outcome, "LookupError")
    /\ TimelineAnswers(outcome)
    /\ before' = flag
    /\ IF outcome \in Refused
       THEN Refuse("ToggleFeatureFlag", outcome, StatusForbidden)
       ELSE LET featureFlagRecord == Toggle(FindByID(flag), environmentName)
            IN  IF outcome = "SaveError"
                THEN SaveFails("ToggleFeatureFlag")
                ELSE /\ SaveAndRecord("ToggleFeatureFlag",
                                      [flag EXCEPT !.Environments =
                                          featureFlagRecord.Environments],
                                      FeatureFlagToggle(environmentName), outcome,
                                      StatusOK, StatusInternalServerError,
                                      NilObjectID, environmentName)
                     /\ UNCHANGED nextID

Next ==
    \/ \E environments \in InitialEnvironments, outcome \in Outcomes :
          PostFeatureFlag(environments, outcome)
    \/ \E outcome \in Outcomes : PatchFeatureFlag(outcome)
    \/ \E revisionID \in RevisionIDs, outcome \in Outcomes :
          ApproveRevision(revisionID, outcome)
    \/ \E outcome \in Outcomes : RollbackFeatureFlagVersion(outcome)
    \/ \E outcome \in Outcomes : DeleteFeatureFlag(outcome)
    \/ \E environmentName \in EnvironmentNames, outcome \in Outcomes :
          ToggleFeatureFlag(environmentName, outcome)

Spec == Init /\ [][Next]_vars

\* The kind of timeline entry that matches a request.
MatchingKind(response) ==
    CASE response.op = "PostFeatureFlag" -> Created
      [] response.op = "PatchFeatureFlag" -> RevisionCreated
      [] response.op = "ApproveRevision" -> RevisionApproved
      [] response.op = "RollbackFeatureFlagVersion" -> FeatureFlagRollback
      [] response.op = "DeleteFeatureFlag" -> FeatureFlagDeleted
      [] response.op = "ToggleFeatureFlag" -> FeatureFlagToggle(response.env)

\* --------------------------------------------- requests served at once
\* The server runs every request in a goroutine of its own, and a handler
\* makes its store calls one after the other with no lock and no version
\* check (the filter of every update is the flag id alone).  Here each store
\* call of a handler is a step, and the steps of the workers interleave.
\* The request is not refused; the flag was created before it is named.

\* Requests in flight that will append a timeline entry when they end.
InFlight == Cardinality({w \in Workers : requests[w].pc # "idle"})

\* The requests whose update is stored and whose timeline entry is not.
Waiting == Cardinality({w \in Workers : requests[w].pc = "updated"})

\* The requests the workers have taken so far.
RECURSIVE Served(_)
Served(workers) ==
    IF workers = {} THEN 0
    ELSE LET w == CHOOSE w \in workers : TRUE
         IN  requests[w].served + Served(workers \ {w})

\* A worker can take a request on the stored flag.
Free(w) ==
    /\ requests[w].pc = "idle"
    /\ Served(Workers) < MaxServed
    /\ flag.exists
    /\ ~Excluded(flag)
    /\ Len(timeline) + InFlight < MaxTimeline

\* ApproveRevision up to model.FindByID: the worker holds the document read.
ApproveRevisionFind(w, revisionID) ==
    /\ Free(w)
    /\ flag.Version < 1 + MaxVersionDrift
    /\ requests' = [requests EXCEPT ![w] =
          [pc |-> "found", op |-> "ApproveRevision", revisionID |-> revisionID,
           featureFlagRecord |-> FindByID(flag),
           served |-> requests[w].served + 1, order |-> 0]]
    /\ UNCHANGED <<flag, timeline, nextID, timelineUp, before, last>>

\* RollbackFeatureFlagVersion up to model.FindByID.
RollbackFind(w) ==
    /\ Free(w)
    /\ flag.Version > 1 - MaxVersionDrift
    /\ requests' = [requests EXCEPT ![w] =
          [pc |-> "found", op |-> "RollbackFeatureFlagVersion",
           revisionID |-> NilObjectID, featureFlagRecord |-> FindByID(flag),
           served |-> requests[w].served + 1, order |-> 0]]
    /\ UNCHANGED <<flag, timeline, nextID, timelineUp, before, last>>

\* Mutant: the update writes the elements the loops changed, one by one, and
\* increments version in the store, instead of setting the whole array and
\* the version computed from the document read.
FlagUpdateByElement(w) ==
    /\ requests[w].pc = "found"
    /\ LET featureFlagRecord ==
              IF requests[w].op = "ApproveRevision"
              THEN Approve(requests[w].featureFlagRecord, requests[w].revisionID)
              ELSE Rollback(requests[w].featureFlagRecord)
           changed(i) ==
              /\ i \in DOMAIN featureFlagRecord.Revisions
              /\ featureFlagRecord.Revisions[i]
                    # requests[w].featureFlagRecord.Revisions[i]
       IN  flag' = [flag EXCEPT
                !.Version = flag.Version + featureFlagRecord.Version
                                - requests[w].featureFlagRecord.Version,
                !.Revisions = [i \in DOMAIN flag.Revisions |->
                                 IF changed(i) THEN featureFlagRecord.Revisions[i]
                                 ELSE flag.Revisions[i]]]
    /\ requests' = [requests EXCEPT ![w].pc = "updated",
                                    ![w].order = Waiting + 1]
    /\ UNCHANGED <<timeline, nextID, timelineUp, before, last>>

\* The loops run on the document the worker holds, and model.UpdateOne sets
\* version and revisions of the stored document to what they left.
FlagUpdate(w) ==
    /\ requests[w].pc = "found"
    /\ LET featureFlagRecord ==
              IF requests[w].op = "ApproveRevision"
              THEN Approve(requests[w].featureFlagRecord, requests[w].revisionID)
              ELSE Rollback(requests[w].featureFlagRecord)
       IN  flag' = [flag EXCEPT !.Version = featureFlagRecord.Version,
                                !.Revisions = featureFlagRecord.Revisions]
    /\ requests' = [requests EXCEPT ![w].pc = "updated",
                                    ![w].order = Waiting + 1]
    /\ UNCHANGED <<timeline, nextID, timelineUp, before, last>>

\* model.UpdateOne fails: the request ends with 500 and nothing stored.
FlagUpdateFails(w) ==
    /\ requests[w].pc = "found"
    /\ requests' = [requests EXCEPT ![w] = Rest(requests[w])]
    /\ UNCHANGED <<flag, timeline, nextID, timelineUp, before, last>>

\* PatchFeatureFlag up to model.UpdateOne: the new Draft is pushed onto the
\* revisions of the stored document in one store call.
PatchPush(w) ==
    /\ Free(w)
    /\ Len(flag.Revisions) < MaxRevisions
    /\ nextID <= MaxRevisions
    /\ flag' = [flag EXCEPT !.Revisions =
                    Append(flag.Revisions, NewRevisionRecord(nextID))]
    /\ nextID' = nextID + 1
    /\ requests' = [requests EXCEPT ![w] =
          [pc |-> "updated", op |-> "PatchFeatureFlag", revisionID |-> nextID,
           featureFlagRecord |-> NoFlag, served |-> requests[w].served + 1,
           order |-> Waiting + 1]]
    /\ UNCHANGED <<timeline, timelineUp, before, last>>

\* The rest of a handler: timelineModel.UpdateOne and the response.
TimelineUpdate(w) ==
    /\ requests[w].pc = "updated"
    /\ timeline' = IF timelineUp
                   THEN UpdateOne(timeline, MatchingKind(requests[w]))
                   ELSE timeline
    /\ requests' = [v \in Workers |->
          IF v = w THEN Rest(requests[w])
          ELSE IF requests[v].order > requests[w].order
          THEN [requests[v] EXCEPT !.order = requests[v].order - 1]
          ELSE requests[v]]
    /\ UNCHANGED <<flag, nextID, timelineUp, before, last>>

NextConc ==
    \/ \E environments \in InitialEnvironments, outcome \in {"OK", "AuditError"} :
          PostFeatureFlag(environments, outcome)
    \/ \E w \in Workers, revisionID \in RevisionIDs :
          ApproveRevisionFind(w, revisionID)
    \/ \E w \in Workers : RollbackFind(w)
    \/ \E w \in Workers : FlagUpdate(w)
    \/ \E w \in Workers : FlagUpdateFails(w)
    \/ \E w \in Workers : PatchPush(w)
    \/ \E w \in Workers : TimelineUpdate(w)

SpecConc == Init /\ [][NextConc]_vars

\* ------------------------------------------------- vocabulary of the claims
\* The last request stored its change of the flag document.
Persisted == last.stage \in {"unaudited", "done"}

Approved == last.op = "ApproveRevision" /\ Persisted
RolledBack == last.op = "RollbackFeatureFlagVersion" /\ Persisted
Toggled == last.op = "ToggleFeatureFlag" /\ Persisted

WithStatus(revisions, status) ==
    {i \in DOMAIN revisions : revisions[i].Status = status}

WithID(revisions, id) ==
    {i \in DOMAIN revisions : revisions[i].ID = id}

IsDraft(revisions, id) ==
    \E i \in WithID(revisions, id) : revisions[i].Status = Draft

\* The id of the Live revision, the nil id when none is Live.
LiveID(revisions) ==
    IF WithStatus(revisions, Live) = {} THEN NilObjectID
    ELSE revisions[CHOOSE i \in WithStatus(revisions, Live) : TRUE].ID

\* The revision sequence kept its length and every revision its id.
SameRevisions(old, new) ==
    /\ Len(new) = Len(old)
    /\ \A i \in DOMAIN old : new[i].ID = old[i].ID

\* (C1) At most one revision of the flag has status Live in every state the
\* requests, executed one at a time, can reach.
C1_AtMostOneLive == Cardinality(WithStatus(flag.Revisions, Live)) <= 1

\* An Approve has displaced a Live revision: one is Live, one is Archived.
C1_Witness ==
    /\ Approved
    /\ WithStatus(before.Revisions, Live) # {}
    /\ WithStatus(flag.Revisions, Live) # {}
    /\ WithStatus(flag.Revisions, Archived) # {}

\* (C2) An Approve whose revisionId names no revision of the flag, or one
\* that is not Draft (the Live revision, say), is rejected with
\* InvalidStateTransition: it answers an error and stores nothing.  Stated for
\* the behaviours in which the timeline store takes every write.
C2_ApproveRejectsNonDraft ==
    (timelineUp /\ last.op = "ApproveRevision"
        /\ ~IsDraft(before.Revisions, last.revisionID))
    => (last.err # NoError /\ flag = before)

\* (C3) A stored Approve of a Draft revision T sets T to Live, every revision
\* that was Live to Archived, adds exactly 1 to version, and leaves the status
\* and LastRevisionID of every other revision as they were.
C3_ApproveEffect ==
    (Approved /\ IsDraft(before.Revisions, last.revisionID)) =>
        /\ SameRevisions(before.Revisions, flag.Revisions)
        /\ flag.Version = before.Version + 1
        /\ \A i \in DOMAIN before.Revisions :
              LET old == before.Revisions[i]
                  new == flag.Revisions[i]
              IN  IF old.ID = last.revisionID THEN new.Status = Live
                  ELSE /\ new.LastRevisionID = old.LastRevisionID
                       /\ new.Status = IF old.Status = Live THEN Archived
                                       ELSE old.Status

\* A Draft was approved while another revision was Live and a third existed.
C3_Witness ==
    /\ Approved
    /\ IsDraft(before.Revisions, last.revisionID)
    /\ WithStatus(before.Revisions, Live) # {}
    /\ Len(before.Revisions) >= 3

\* (C4) After a stored Approve of a Draft revision T, T.LastRevisionID is the
\* id of the revision that was Live before the call (nil when none was),
\* wherever T and that revision stand in the sequence.
C4_BacklinkIsPreviousLive ==
    (Approved /\ IsDraft(before.Revisions, last.revisionID)) =>
        \A i \in WithID(flag.Revisions, last.revisionID) :
            flag.Revisions[i].LastRevisionID = LiveID(before.Revisions)

\* (C5) With revision A Live at version v and B Draft, Approve(B) followed by
\* Rollback leaves A Live, B Draft, version v and A.LastRevisionID nil.
C5_ApproveThenRollback ==
    [][ ( /\ Approved
          /\ IsDraft(before.Revisions, last.revisionID)
          /\ WithStatus(before.Revisions, Live) # {}
          /\ last'.op = "RollbackFeatureFlagVersion"
          /\ last'.stage \in {"unaudited", "done"} )
        => ( /\ flag'.Version = before.Version
             /\ \A i \in DOMAIN before.Revisions :
                   /\ before.Revisions[i].ID = last.revisionID
                        => flag'.Revisions[i].Status = Draft
                   /\ before.Revisions[i].Status = Live
                        => /\ flag'.Revisions[i].Status = Live
                           /\ flag'.Revisions[i].LastRevisionID = NilObjectID )
      ]_vars

\* (C6) A Rollback on a flag with no Live revision fails with
\* NoActiveRevision: it answers an error, and version and every revision's
\* status and LastRevisionID are as they were.  Stated for the behaviours in
\* which the timeline store takes every write.
C6_RollbackNeedsLive ==
    (timelineUp /\ last.op = "RollbackFeatureFlagVersion"
        /\ WithStatus(before.Revisions, Live) = {})
    => /\ last.err # NoError
       /\ flag.Version = before.Version
       /\ flag.Revisions = before.Revisions

\* (C7) A stored Rollback on a flag whose Live revision L has LastRevisionID
\* P, with P Archived, sets L to Draft with no LastRevisionID, sets P to Live,
\* takes exactly 1 from version and leaves every other revision as it was.
C7_RollbackRestoresPredecessor ==
    (/\ RolledBack
     /\ Cardinality(WithStatus(before.Revisions, Live)) = 1
     /\ \E l \in WithStatus(before.Revisions, Live),
           p \in WithStatus(before.Revisions, Archived) :
           before.Revisions[l].LastRevisionID = before.Revisions[p].ID)
    => /\ SameRevisions(before.Revisions, flag.Revisions)
       /\ flag.Version = before.Version - 1
       /\ \A i \in DOMAIN before.Revisions :
             LET old == before.Revisions[i]
                 new == flag.Revisions[i]
             IN  IF old.Status = Live
                 THEN new.Status = Draft /\ new.LastRevisionID = NilObjectID
                 ELSE IF old.ID = LET l == CHOOSE l \in WithStatus(before.Revisions, Live) : TRUE
                                  IN  before.Revisions[l].LastRevisionID
                 THEN new.Status = Live /\ new.LastRevisionID = old.LastRevisionID
                 ELSE new = old

\* A Rollback restored an Archived predecessor while a third revision existed.
C7_Witness ==
    /\ RolledBack
    /\ Len(before.Revisions) >= 3
    /\ \E l \in WithStatus(before.Revisions, Live),
          p \in WithStatus(before.Revisions, Archived) :
          /\ before.Revisions[l].LastRevisionID = before.Revisions[p].ID
          /\ flag.Revisions[p].Status = Live

\* (C8) A stored Rollback on a flag whose only revision is Live and has no
\* LastRevisionID leaves no revision Live and version smaller by 1.
C8_RollbackWithoutHistory ==
    (/\ RolledBack
     /\ Len(before.Revisions) = 1
     /\ before.Revisions[1].Status = Live
     /\ before.Revisions[1].LastRevisionID = NilObjectID)
    => /\ WithStatus(flag.Revisions, Live) = {}
       /\ flag.Version = before.Version - 1

\* The sole, Live revision of a flag was rolled back.
C8_Witness ==
    /\ RolledBack
    /\ Len(before.Revisions) = 1
    /\ before.Revisions[1].Status = Live
    /\ before.Revisions[1].LastRevisionID = NilObjectID
    /\ flag.Revisions[1].Status = Draft

C10_ToggleFlipsNamedOnly ==
    (Toggled /\ \E i \in DOMAIN before.Environments :
                    before.Environments[i].Name = last.env)
    => /\ Len(flag.Environments) = Len(before.Environments)
       /\ \A i \in DOMAIN before.Environments :
             LET old == before.Environments[i]
                 new == flag.Environments[i]
             IN  /\ new.Name = old.Name
                 /\ new.IsEnabled = IF old.Name = last.env
                                    THEN ~old.IsEnabled ELSE old.IsEnabled

\* Environment prod of {prod: false, staging: true} was toggled.
C10_Witness ==
    /\ Toggled
    /\ last.env = "prod"
    /\ Len(before.Environments) = 2
    /\ ~before.Environments[1].IsEnabled /\ flag.Environments[1].IsEnabled
    /\ before.Environments[2].IsEnabled /\ flag.Environments[2].IsEnabled

\* (C11) Two stored Toggles in a row that name the same environment, with no
\* other request between them, leave every environment of the flag with the
\* IsEnabled it had before the first of the two.
C11_ToggleTwiceRestores ==
    [][ ( /\ Toggled
          /\ last'.op = "ToggleFeatureFlag"
          /\ last'.stage \in {"unaudited", "done"}
          /\ last'.env = last.env )
        => flag'.Environments = before.Environments
      ]_vars

\* The second of two Toggles of prod has put prod back to disabled.
C11_Witness ==
    /\ Toggled
    /\ last.env = "prod"
    /\ before.Environments[1].Name = "prod"
    /\ before.Environments[1].IsEnabled
    /\ flag.Environments = [before.Environments EXCEPT ![1].IsEnabled = FALSE]
    /\ flag.Environments \in InitialEnvironments

\* (C12) A Toggle whose name matches no environment of the flag is not
\* refused for it: it stores the environments with every IsEnabled as it was
\* and, when the timeline store takes the write, answers 200 without error.
C12_ToggleUnknownName ==
    (/\ last.op = "ToggleFeatureFlag"
     /\ last.stage # "refused"
     /\ last.stage # "unsaved"
     /\ \A i \in DOMAIN before.Environments :
           before.Environments[i].Name # last.env)
    => /\ flag.Environments = before.Environments
       /\ timelineUp => (last.code = StatusOK /\ last.err = NoError)

\* Environment dev, which the flag has not, was toggled and answered 200.
C12_Witness ==
    /\ Toggled
    /\ last.env = "dev"
    /\ last.code = StatusOK
    /\ Len(before.Environments) = 2
    /\ \A i \in DOMAIN before.Environments : before.Environments[i].Name # "dev"
    /\ flag.Environments = before.Environments

\* (C13) Every request that succeeds in changing the flag (create, new
\* draft, approve, rollback, toggle, delete) leaves the timeline of the flag
\* longer by exactly one entry, of the kind of the request, at its end; and
\* no request changes or removes an entry the timeline already had.
C13_OneEventPerMutation ==
    [][ /\ Len(timeline') >= Len(timeline)
        /\ SubSeq(timeline', 1, Len(timeline)) = timeline
        /\ last'.stage = "done"
              => timeline' = timeline \o <<MatchingKind(last')>>
      ]_vars

\* Four requests of four kinds succeeded and left four entries in call order.
C13_Witness ==
    /\ last.stage = "done"
    /\ last.op = "RollbackFeatureFlagVersion"
    /\ timeline = <<Created, RevisionCreated, RevisionApproved, FeatureFlagRollback>>

\* (C14) When an approve, rollback, toggle, new-draft or delete request has
\* stored its change of the flag and the timeline write then fails, the
\* request answers an error and the stored flag has the change: the version
\* moved by 1, the named environment inverted, the new Draft at the end of
\* the revisions, the flag marked deleted.
C14_AuditFailureKeepsMutation ==
    (last.stage = "unaudited" /\ last.op # "PostFeatureFlag")
    => /\ last.err # NoError
       /\ last.code = StatusInternalServerError
       /\ CASE last.op = "ApproveRevision" ->
                  flag.Version = before.Version + 1
            [] last.op = "RollbackFeatureFlagVersion" ->
                  flag.Version = before.Version - 1
            [] last.op = "ToggleFeatureFlag" ->
                  \A i \in DOMAIN before.Environments :
                      before.Environments[i].Name = last.env
                      => flag.Environments[i].IsEnabled
                            = ~before.Environments[i].IsEnabled
            [] last.op = "PatchFeatureFlag" ->
                  /\ Len(flag.Revisions) = Len(before.Revisions) + 1
                  /\ flag.Revisions[Len(flag.Revisions)].ID = last.revisionID
                  /\ flag.Revisions[Len(flag.Revisions)].Status = Draft
            [] last.op = "DeleteFeatureFlag" ->
                  flag.deleted /\ ~before.deleted

\* An Approve of a Draft was stored, its timeline write failed, and the
\* stored flag has the revision Live.
C14_Witness ==
    /\ last.stage = "unaudited"
    /\ last.op = "ApproveRevision"
    /\ last.err = InternalServerError
    /\ IsDraft(before.Revisions, last.revisionID)
    /\ LiveID(flag.Revisions) = last.revisionID
    /\ timeline = <<>>

\* (C15) However the store calls of requests served at once interleave, the
\* stored revisions only grow at the end: every step leaves each revision
\* the stored document had at its place, with its id, a new Draft pushed
\* while an Approve or a Rollback is between its read and its update
\* included.
C15_RevisionsAppendOnly ==
    [][ /\ Len(flag'.Revisions) >= Len(flag.Revisions)
        /\ \A i \in DOMAIN flag.Revisions :
              flag'.Revisions[i].ID = flag.Revisions[i].ID
      ]_vars

\* (C16) An Approve whose revisionID names no revision of the flag, or a
\* revision that is not Draft, leaves the stored flag as it was (no status
\* changes, the Live revision stays Live, version is not incremented) and
\* appends no entry to the timeline.  Stated for the behaviours in which the
\* timeline store takes every write.
C16_ApproveNonDraftChangesNothing ==
    [][ ( /\ timelineUp
          /\ last'.op = "ApproveRevision"
          /\ ~IsDraft(flag.Revisions, last'.revisionID) )
        => ( /\ flag'.Revisions = flag.Revisions
             /\ flag'.Version = flag.Version
             /\ timeline' = timeline )
      ]_vars

\* A Rollback was stored for a flag whose Live revision had no LastRevisionID.
RolledBackWithoutBacklink ==
    /\ RolledBack
    /\ \E l \in WithStatus(before.Revisions, Live) :
          before.Revisions[l].LastRevisionID = NilObjectID

\* The revisions as loaded, with every Live revision turned Draft.
LiveTurnedDraft(revisions) ==
    [i \in DOMAIN revisions |->
        IF revisions[i].Status = Live
        THEN [revisions[i] EXCEPT !.Status = Draft]
        ELSE revisions[i]]

\* (C17, as the spec states it) When Rollback finds a Live revision L whose
\* LastRevisionID is absent, the only change it makes to the flag is setting
\* L to Draft: no other revision changes and version keeps its value.
C17_RollbackWithoutBacklinkKeepsVersion ==
    RolledBackWithoutBacklink =>
        flag = [before EXCEPT !.Revisions = LiveTurnedDraft(before.Revisions)]

\* (C17, amended) When Rollback finds a Live revision L whose LastRevisionID
\* is absent, the only change it makes to the revisions is setting L to
\* Draft, no other revision changes, and version is smaller by 1; nothing
\* else of the flag changes.
C17_RollbackWithoutBacklinkDecrements ==
    RolledBackWithoutBacklink =>
        flag = [before EXCEPT !.Revisions = LiveTurnedDraft(before.Revisions),
                              !.Version = before.Version - 1]

\* A Live revision without LastRevisionID was rolled back in a flag that
\* also had an Archived and a Draft revision, which stay as they were.
C17_Witness ==
    /\ RolledBackWithoutBacklink
    /\ WithStatus(before.Revisions, Archived) # {}
    /\ WithStatus(before.Revisions, Draft) # {}
    /\ WithStatus(flag.Revisions, Live) = {}
    /\ WithStatus(flag.Revisions, Archived) = WithStatus(before.Revisions, Archived)

\* (C19) In every state that requests executed one at a time reach, a Live
\* revision that has a LastRevisionID names with it a revision of the same
\* flag, other than itself, whose status is Archived.
C19_LiveBacklinkNamesArchived ==
    \A l \in WithStatus(flag.Revisions, Live) :
        flag.Revisions[l].LastRevisionID # NilObjectID
        => \E p \in DOMAIN flag.Revisions :
              /\ p # l
              /\ flag.Revisions[p].ID = flag.Revisions[l].LastRevisionID
              /\ flag.Revisions[p].Status = Archived

\* A Rollback has made Live again a revision that points back to a third.
C19_Witness ==
    /\ RolledBack
    /\ \E l \in WithStatus(flag.Revisions, Live) :
          /\ flag.Revisions[l].LastRevisionID # NilObjectID
          /\ before.Revisions[l].Status = Archived

\* The revisions of a flag whose first `approved` revisions were approved in
\* the order of their creation, and no other: the last of them is Live and
\* points back to the one before it, those before are Archived with their
\* backlinks, those after are Draft without one.
ApprovedInOrder(revisions, approved) ==
    /\ approved \in 0..Len(revisions)
    /\ \A i \in DOMAIN revisions :
          /\ revisions[i].Status = IF i < approved THEN Archived
                                   ELSE IF i = approved THEN Live ELSE Draft
          /\ revisions[i].LastRevisionID =
                IF 1 < i /\ i <= approved THEN revisions[i - 1].ID
                ELSE NilObjectID

\* (C20) Rollback undoes exactly the last promotion.  A fresh flag has no
\* revision; a new Draft and the Approve of the first Draft keep the
\* revisions those of Drafts R1..Rk approved in the order of their creation;
\* and a stored Rollback of such a flag with R1..Ra approved leaves the
\* revisions those of R1..R(a-1) approved: R(a-1) is the single Live revision
\* and, when a = 1, no revision is Live.  By induction on j, j Rollbacks after
\* the k Approves leave R(k-j) Live for j < k and none Live for j = k.
C20_RollbackUndoesLastPromotion ==
    /\ (last.op = "PostFeatureFlag" /\ Persisted)
          => ApprovedInOrder(flag.Revisions, 0)
    /\ \A a \in 0..Len(before.Revisions) :
          ApprovedInOrder(before.Revisions, a) =>
             /\ (last.op = "PatchFeatureFlag" /\ Persisted)
                   => ApprovedInOrder(flag.Revisions, a)
             /\ (Approved /\ a < Len(before.Revisions)
                     /\ last.revisionID = before.Revisions[a + 1].ID)
                   => ApprovedInOrder(flag.Revisions, a + 1)
             /\ (RolledBack /\ a >= 1)
                   => /\ SameRevisions(before.Revisions, flag.Revisions)
                      /\ ApprovedInOrder(flag.Revisions, a - 1)
                      /\ WithStatus(flag.Revisions, Live) = {a - 1} \ {0}

\* Three Drafts were approved in order on a fresh flag (version 4) and a
\* Rollback has followed: R2 is the single Live revision, R3 is Draft.
C20_Witness ==
    /\ RolledBack
    /\ Len(before.Revisions) = 3
    /\ ApprovedInOrder(before.Revisions, 3)
    /\ before.Version = 4
    /\ WithStatus(flag.Revisions, Live) = {2}
    /\ flag.Revisions[3].Status = Draft
    /\ flag.Version = 3

\* What version moves by in a request: 1 up in an Approve that `counts`, 1
\* down in a Rollback that counts, nothing otherwise.
VersionStep(counts) ==
    IF last.op = "ApproveRevision" /\ counts THEN 1
    ELSE IF last.op = "RollbackFeatureFlagVersion" /\ counts THEN -1
    ELSE 0

\* (C21, as the spec states it) version is 1 when the flag is created and
\* every later request moves it by the step of a successful Approve (+1) or
\* a successful Rollback (-1), so that it is 1 plus the successful Approves
\* minus the successful Rollbacks; a request is successful when it answers
\* without error.
C21_VersionCountsSuccessful ==
    /\ (last.op = "PostFeatureFlag" /\ Persisted) => flag.Version = 1
    /\ last.op \notin {"none", "PostFeatureFlag"}
          => flag.Version = before.Version + VersionStep(last.err = NoError)

\* (C21, amended) version is 1 when the flag is created and every later
\* request moves it by +1 when it is an Approve whose update of the flag was
\* stored, by -1 when it is a Rollback whose update was stored, and not at
\* all otherwise, whether or not the timeline write that follows succeeds:
\* version is 1 plus the stored Approves minus the stored Rollbacks, with no
\* lower limit.
C21_VersionCountsStored ==
    /\ (last.op = "PostFeatureFlag" /\ Persisted) => flag.Version = 1
    /\ last.op \notin {"none", "PostFeatureFlag"}
          => flag.Version = before.Version + VersionStep(Persisted)

\* A Rollback answered 200 and took version below 1, to one less than it was.
C21_Witness ==
    /\ RolledBack
    /\ last.err = NoError
    /\ before.Version <= 1
    /\ flag.Version = before.Version - 1

\* (C22) A stored request changes only its own part of the flag.  A Toggle
\* changes no revision and not version.  A new Draft request puts one Draft
\* revision without LastRevisionID at the end of the revisions and changes no
\* other revision, not version, and no environment.  An Approve and a
\* Rollback change no environment.
C22_OwnPartOnly ==
    /\ Toggled =>
          /\ flag.Revisions = before.Revisions
          /\ flag.Version = before.Version
    /\ (last.op = "PatchFeatureFlag" /\ Persisted) =>
          /\ Len(flag.Revisions) = Len(before.Revisions) + 1
          /\ SubSeq(flag.Revisions, 1, Len(before.Revisions)) = before.Revisions
          /\ flag.Revisions[Len(flag.Revisions)].Status = Draft
          /\ flag.Revisions[Len(flag.Revisions)].LastRevisionID = NilObjectID
          /\ flag.Version = before.Version
          /\ flag.Environments = before.Environments
    /\ (Approved \/ RolledBack) => flag.Environments = before.Environments

\* A Draft was added to a flag that had a Live revision, a version other than
\* 1 and an environment toggled away from its initial value.
C22_Witness ==
    /\ last.op = "PatchFeatureFlag"
    /\ Persisted
    /\ WithStatus(before.Revisions, Live) # {}
    /\ before.Version = 2
    /\ before.Environments \notin InitialEnvironments
    /\ Len(flag.Revisions) = Len(before.Revisions) + 1

\* Two Approve requests were served at once: each read the flag while the
\* same revision was Live, each names a revision that was Draft in what it
\* read, and each has stored its update.
BothApprovedSameLive ==
    /\ \A w \in Workers :
          /\ requests[w].pc = "updated"
          /\ requests[w].op = "ApproveRevision"
          /\ IsDraft(requests[w].featureFlagRecord.Revisions, requests[w].revisionID)
          /\ LiveID(requests[w].featureFlagRecord.Revisions) # NilObjectID
    /\ \A w, v \in Workers :
          LiveID(requests[w].featureFlagRecord.Revisions)
             = LiveID(requests[v].featureFlagRecord.Revisions)

C24_TimelineInUpdateOrder ==
    [][ \A w \in Workers :
           ( /\ timelineUp
             /\ requests[w].pc = "updated"
             /\ requests'[w].pc = "idle" )
           => requests[w].order = 1
      ]_vars

\* (C25) A timeline entry is written only after the update it records was
\* stored: a request that fails before the update (context, organization,
\* permission, ids, body, read of the flag) or at the update leaves the
\* timeline as it was, and one that fails before the update leaves the
\* stored flag as it was.
C25_NoEntryWithoutUpdate ==
    [][ /\ last'.stage \in {"refused", "unsaved"} => timeline' = timeline
        /\ last'.stage = "refused" => flag' = flag
      ]_vars

\* An Approve failed at the update of a flag whose timeline has two entries:
\* the flag is as the request found it.
C25_Witness ==
    /\ last.op = "ApproveRevision"
    /\ last.stage = "unsaved"
    /\ last.err = InternalServerError
    /\ flag = before
    /\ timeline = <<Created, RevisionCreated>>

====
